---- MODULE Spec2Model ----
(***************************************************************************)
(* SynthEngine (synth/engine.ts): the voice registry, the ADSR schedules   *)
(* issued to the Web Audio clock, the configuration record and the shared  *)
(* filter / reverb stages.                                                 *)
(*                                                                         *)
(* Units: time in ticks of 10 ms (0.01 s = 1 tick), amplitudes, gains and  *)
(* the 0..1 reverb parameters in hundredths (1.0 = 100), delay-line        *)
(* feedback gains in ten-thousandths, frequencies in Hz.                   *)
(*                                                                         *)
(* JavaScript objects are functions whose DOMAIN is the set of properties  *)
(* that are present; a property that is absent reads as undefined.         *)
(***************************************************************************)
EXTENDS Integers, Sequences, FiniteSets, TLC

----------------------------------------------------------------------------
(* Bounds of the model *)

MaxTime == 2        \* the audio clock runs from 0 to MaxTime ticks
MaxGens == 2        \* oscillators started over one run

----------------------------------------------------------------------------
(* Values *)

NoteIds == {60, 69}
Freqs == {440}
EnvKeys == {"attack", "decay", "sustain", "release"}
AmpOne == 100       \* amplitude 1.0
StopMargin == 1     \* 0.01 s after the release ramp
NoStop == -1        \* an oscillator that has no stop() scheduled
NoSocket == 0       \* browserConnection === null
ObjIds == 0 .. 2    \* heap cells holding envelope objects
DefaultObj == 0     \* the cell of DEFAULT_CONFIG.envelope
Null == [node |-> FALSE]
Absent == [e \in {} |-> 0]    \* an object with no properties

DEFAULT_ENVELOPE ==
    [attack |-> 1, decay |-> 10, sustain |-> 70, release |-> 30]

DEFAULT_CONFIG ==
    [waveform |-> "sawtooth", gain |-> 30, filterType |-> "lowpass",
     filterCutoff |-> 2000, filterResonance |-> 1, envelope |-> DefaultObj,
     reverbMix |-> 20, reverbDecay |-> 50, reverbDamping |-> 30]

delayTimes == <<29, 37, 43, 53>>     \* milliseconds

(* { ...a, ...b } *)
Spread(a, b) ==
    [k \in (DOMAIN a) \cup (DOMAIN b) |-> IF k \in DOMAIN b THEN b[k] ELSE a[k]]

Has(obj, key) == key \in DOMAIN obj

----------------------------------------------------------------------------
VARIABLES
    audioContext,          \* TRUE once the AudioContext exists
    now,                   \* audioContext.currentTime
    config,                \* this.config; config.envelope is a heap cell
    envObjs,               \* heap: the envelope objects
    masterGain,            \* masterGain.gain.value, Null before initialize
    filter,                \* the shared BiquadFilterNode
    reverbDry, reverbWet,  \* dry / wet gain values
    reverbFeedbacks,       \* feedback gain of each delay line
    reverbDampingFilters,  \* damping cutoff of each delay line
    gens,                  \* every oscillator started, in creation order
    activeVoices,          \* the Map noteId -> voice, in insertion order
    held,                  \* the object a caller got from getConfig()
    lastCall,              \* the call that produced this state
    drumOutput,            \* DrumEngine.output.gain.value, Null before new
    drumGens,              \* the sources DrumEngine has started
    parse,                 \* the last note name parsed and its result
    played,                \* the play_note commands the bridge has handled
    timers,                \* the commands whose note-off timer is pending
    activeNotes,           \* synth track engine: rowId -> timeoutId
    trackTimers,           \* the synth track engine's pending timeouts
    sockets,               \* MCP server: the browser sockets that are open
    browserConnection,     \* MCP server: the socket commands are sent on
    requestId,             \* MCP server: the request counter
    pendingRequests,       \* MCP server: the Map id -> request callback
    requests,              \* the sendCommand promises and their settling
    mcpTimers,             \* the sendCommand timeouts that are pending
    wallClock,             \* the server's clock, in units of 5 s
    pressedKeys,           \* keyboard: the Map key -> MIDI note playing
    octaveOffset,          \* keyboard: the octave shift in semitones
    keysDown,              \* the keys physically held down
    awaiting,              \* keydown handlers waiting on ensureAudio()
    keyVoices              \* the generators key presses have started

vars == <<audioContext, now, config, envObjs, masterGain, filter, reverbDry,
          reverbWet, reverbFeedbacks, reverbDampingFilters, gens,
          activeVoices, held, lastCall, drumOutput, drumGens, parse,
          played, timers, activeNotes, trackTimers, sockets,
          browserConnection, requestId, pendingRequests, requests,
          mcpTimers, wallClock, pressedKeys, octaveOffset, keysDown,
          awaiting, keyVoices>>

stageVars == <<masterGain, filter, reverbDry, reverbWet, reverbFeedbacks,
               reverbDampingFilters>>
voiceVars == <<gens, activeVoices>>
configVars == <<config, envObjs>>
drumVars == <<drumOutput, drumGens>>
playVars == <<played, timers>>
trackVars == <<activeNotes, trackTimers>>
mcpVars == <<sockets, browserConnection, requestId, pendingRequests,
             requests, mcpTimers, wallClock>>
keyVars == <<pressedKeys, octaveOffset, keysDown, awaiting, keyVoices>>
edgeVars == <<playVars, trackVars, mcpVars, keyVars>>

\* found: the id was in the registry when noteOn / noteOff was called
Call(op, id, threw, found) ==
    [op |-> op, id |-> id, threw |-> threw, found |-> found]

----------------------------------------------------------------------------
(* Heap of envelope objects *)

Referenced(cfg, h) ==
    {DefaultObj, cfg.envelope} \cup (IF h = Null THEN {} ELSE {h.envelope})

\* the cell a new object literal gets when it replaces this.config.envelope:
\* the least cell that neither DEFAULT_CONFIG nor a caller refers to
FreshObj(h) ==
    LET kept == {DefaultObj} \cup (IF h = Null THEN {} ELSE {h.envelope})
    IN  CHOOSE o \in ObjIds \ kept : \A p \in ObjIds \ kept : o <= p

\* cells nothing refers to any more are collected
Collect(objs, cfg, h) ==
    [o \in ObjIds |-> IF o \in Referenced(cfg, h) THEN objs[o] ELSE Absent]

Envelope == envObjs[config.envelope]

----------------------------------------------------------------------------
Init ==
    /\ audioContext = FALSE
    /\ now = 0
    /\ config = DEFAULT_CONFIG
    /\ envObjs = [o \in ObjIds |-> IF o = DefaultObj THEN DEFAULT_ENVELOPE
                                   ELSE Absent]
    /\ masterGain = Null
    /\ filter = Null
    /\ reverbDry = Null
    /\ reverbWet = Null
    /\ reverbFeedbacks = << >>
    /\ reverbDampingFilters = << >>
    /\ gens = << >>
    /\ activeVoices = << >>
    /\ held = Null
    /\ lastCall = Call("new", 0, FALSE, FALSE)
    /\ drumOutput = Null
    /\ drumGens = << >>
    /\ parse = Null
    /\ played = << >>
    /\ timers = {}
    /\ activeNotes = Absent
    /\ trackTimers = {}
    /\ sockets = {}
    /\ browserConnection = NoSocket
    /\ requestId = 0
    /\ pendingRequests = Absent
    /\ requests = << >>
    /\ mcpTimers = {}
    /\ wallClock = 0
    /\ pressedKeys = Absent
    /\ octaveOffset = 0
    /\ keysDown = {}
    /\ awaiting = << >>
    /\ keyVoices = {}

----------------------------------------------------------------------------
(* initialize() *)

\* the decay is clamped into [0, 1] before it is mapped
FeedbackGainClamped(reverbDecay) ==
    3000 + 65 * (IF reverbDecay < 0 THEN 0
                 ELSE IF reverbDecay > 100 THEN 100 ELSE reverbDecay)

FeedbackGain(reverbDecay) == 3000 + reverbDecay * 65
DampingFreq(reverbDamping) == 20000 - reverbDamping * 180

GainNode(v) == [node |-> TRUE, gain |-> v]
FilterNode(cfg) ==
    [node |-> TRUE, type |-> cfg.filterType, frequency |-> cfg.filterCutoff,
     Q |-> cfg.filterResonance]

\* the stages are built from the configuration
BuildStages(cfg) ==
    /\ audioContext' = TRUE
    /\ masterGain' = GainNode(cfg.gain)
    /\ filter' = FilterNode(cfg)
    /\ reverbDry' = GainNode(100 - cfg.reverbMix)
    /\ reverbWet' = GainNode(cfg.reverbMix)
    /\ reverbFeedbacks' = reverbFeedbacks \o
           [i \in DOMAIN delayTimes |-> FeedbackGain(cfg.reverbDecay)]
    /\ reverbDampingFilters' = reverbDampingFilters \o
           [i \in DOMAIN delayTimes |-> DampingFreq(cfg.reverbDamping)]

\* no early return: every call builds the stages and pushes delay lines
InitializeEveryCall ==
    /\ lastCall' = Call("initialize", 0, FALSE, FALSE)
    /\ BuildStages(config)
    /\ UNCHANGED <<now, configVars, voiceVars, held, drumVars, parse, edgeVars>>

\* the stages are built from the defaults, not from this.config
InitializeFromDefaults ==
    /\ lastCall' = Call("initialize", 0, FALSE, FALSE)
    /\ IF audioContext
       THEN UNCHANGED <<audioContext, stageVars>>
       ELSE BuildStages(DEFAULT_CONFIG)
    /\ UNCHANGED <<now, configVars, voiceVars, held, drumVars, parse, edgeVars>>

Initialize ==
    /\ lastCall' = Call("initialize", 0, FALSE, FALSE)
    /\ IF audioContext
       THEN UNCHANGED <<audioContext, stageVars>>
       ELSE BuildStages(config)
    /\ UNCHANGED <<now, configVars, voiceVars, held, drumVars, parse, edgeVars>>

----------------------------------------------------------------------------
(* setConfig(partial) *)

\* only the first delay line is written
UpdateFirst(nodes, v) == [i \in DOMAIN nodes |-> IF i = 1 THEN v ELSE nodes[i]]

\* for (const fb of this.reverbFeedbacks) fb.gain.value = v
UpdateAll(nodes, v) == [i \in DOMAIN nodes |-> v]

\* a merge over the defaults instead of over the current configuration
MergedOverDefaults(partial) == Spread(DEFAULT_CONFIG, partial)

\* this.config = { ...this.config, ...config }
Merged(partial) == Spread(config, partial)

\* the pending ramps of every registered voice are cancelled as well
SetConfigReschedulesVoices(partial) ==
    LET merged == Merged(partial)
        \* after the spread this.config.envelope is the caller's object
        spreadEnv == IF Has(partial, "envelope") THEN partial.envelope
                     ELSE Envelope
        newEnv == Spread(spreadEnv, partial.envelope)
        cell == FreshObj(held)
        cfg == IF Has(partial, "envelope")
               THEN [merged EXCEPT !.envelope = cell]
               ELSE merged
    IN  /\ config' = cfg
        /\ envObjs' = Collect(IF Has(partial, "envelope")
                              THEN [envObjs EXCEPT ![cell] = newEnv]
                              ELSE envObjs, cfg, held)
        /\ masterGain' = IF masterGain # Null THEN GainNode(cfg.gain)
                         ELSE masterGain
        /\ filter' = IF filter # Null THEN FilterNode(cfg) ELSE filter
        /\ IF reverbDry # Null /\ reverbWet # Null /\ Has(partial, "reverbMix")
           THEN /\ reverbDry' = GainNode(100 - cfg.reverbMix)
                /\ reverbWet' = GainNode(cfg.reverbMix)
           ELSE UNCHANGED <<reverbDry, reverbWet>>
        /\ reverbFeedbacks' =
               IF Has(partial, "reverbDecay")
               THEN UpdateAll(reverbFeedbacks, FeedbackGain(cfg.reverbDecay))
               ELSE reverbFeedbacks
        /\ reverbDampingFilters' =
               IF Has(partial, "reverbDamping")
               THEN UpdateAll(reverbDampingFilters,
                              DampingFreq(cfg.reverbDamping))
               ELSE reverbDampingFilters
        /\ lastCall' = Call("setConfig", 0, FALSE, FALSE)
        /\ gens' = [i \in DOMAIN gens |->
                       IF \E e \in DOMAIN activeVoices : activeVoices[e].gen = i
                       THEN [gens[i] EXCEPT
                                !.events = SelectSeq(gens[i].events,
                                               LAMBDA e : e.time < now)]
                       ELSE gens[i]]
        /\ UNCHANGED <<audioContext, now, activeVoices, held, drumVars, parse, edgeVars>>

SetConfig(partial) ==
    LET merged == Merged(partial)
        \* after the spread this.config.envelope is the caller's object
        spreadEnv == IF Has(partial, "envelope") THEN partial.envelope
                     ELSE Envelope
        newEnv == Spread(spreadEnv, partial.envelope)
        cell == FreshObj(held)
        cfg == IF Has(partial, "envelope")
               THEN [merged EXCEPT !.envelope = cell]
               ELSE merged
    IN  /\ config' = cfg
        /\ envObjs' = Collect(IF Has(partial, "envelope")
                              THEN [envObjs EXCEPT ![cell] = newEnv]
                              ELSE envObjs, cfg, held)
        /\ masterGain' = IF masterGain # Null THEN GainNode(cfg.gain)
                         ELSE masterGain
        /\ filter' = IF filter # Null THEN FilterNode(cfg) ELSE filter
        /\ IF reverbDry # Null /\ reverbWet # Null /\ Has(partial, "reverbMix")
           THEN /\ reverbDry' = GainNode(100 - cfg.reverbMix)
                /\ reverbWet' = GainNode(cfg.reverbMix)
           ELSE UNCHANGED <<reverbDry, reverbWet>>
        /\ reverbFeedbacks' =
               IF Has(partial, "reverbDecay")
               THEN UpdateAll(reverbFeedbacks, FeedbackGain(cfg.reverbDecay))
               ELSE reverbFeedbacks
        /\ reverbDampingFilters' =
               IF Has(partial, "reverbDamping")
               THEN UpdateAll(reverbDampingFilters,
                              DampingFreq(cfg.reverbDamping))
               ELSE reverbDampingFilters
        /\ lastCall' = Call("setConfig", 0, FALSE, FALSE)
        /\ UNCHANGED <<audioContext, now, voiceVars, held, drumVars, parse, edgeVars>>

----------------------------------------------------------------------------
(* getConfig() and what a caller can do with the object it returns *)

GetConfigResult == Spread(Absent, config)

GetConfig ==
    /\ held' = GetConfigResult
    /\ envObjs' = Collect(envObjs, config, GetConfigResult)
    /\ lastCall' = Call("getConfig", 0, FALSE, FALSE)
    /\ UNCHANGED <<audioContext, now, config, stageVars, voiceVars,
                   drumVars, parse, edgeVars>>

----------------------------------------------------------------------------
(* AudioParam automation of a voice's gain node *)

SetEvent(v, t) == [kind |-> "set", value |-> v, time |-> t]
RampEvent(v, t) == [kind |-> "ramp", value |-> v, time |-> t]

\* nothing is dropped from the timeline
CancelNothing(events, t) == events

\* cancelScheduledValues(t): drops every event at or after t
CancelScheduledValues(events, t) == SelectSeq(events, LAMBDA e : e.time < t)

\* the value the automation timeline gives the parameter at time t
ValueAt(events, t) ==
    LET before == {i \in DOMAIN events : events[i].time <= t}
        after == {i \in DOMAIN events : events[i].time > t}
    IN  IF before = {} THEN 0
        ELSE LET i0 == CHOOSE i \in before : \A j \in before : j <= i
                 e0 == events[i0]
             IN  IF after # {} /\ events[i0 + 1].kind = "ramp"
                 THEN LET e1 == events[i0 + 1]
                      IN  e0.value + ((e1.value - e0.value) * (t - e0.time))
                                         \div (e1.time - e0.time)
                 ELSE e0.value

----------------------------------------------------------------------------
(* The Map activeVoices: entries <<noteId, index into gens>>, kept in        *)
(* insertion order, which is the order keys() iterates in                  *)

MapHas(m, k) == \E i \in DOMAIN m : m[i].noteId = k
MapGet(m, k) == m[CHOOSE i \in DOMAIN m : m[i].noteId = k].gen
MapDelete(m, k) == SelectSeq(m, LAMBDA e : e.noteId # k)
MapSet(m, k, g) ==
    IF MapHas(m, k)
    THEN [i \in DOMAIN m |-> IF m[i].noteId = k THEN [noteId |-> k, gen |-> g]
                             ELSE m[i]]
    ELSE Append(m, [noteId |-> k, gen |-> g])
MapKeys(m) == [i \in DOMAIN m |-> m[i].noteId]

----------------------------------------------------------------------------
(* noteOff(noteId), as a function of the engine's voices: st.threw is set   *)
(* when a Web Audio call rejects a non-finite argument (TypeError), and    *)
(* the statements after it are not run                                     *)

VoiceState(g, m, threw) == [gens |-> g, activeVoices |-> m, threw |-> threw]

\* the voice is stopped at once, with no release ramp
releaseVoiceStopNow(st, noteId) ==
    LET g == MapGet(st.activeVoices, noteId)
    IN  VoiceState([st.gens EXCEPT
                       ![g].events = CancelScheduledValues(@, now),
                       ![g].stopTime = now],
                   MapDelete(st.activeVoices, noteId), FALSE)

\* the whole registry is cleared when one voice is released
releaseVoiceClearsRegistry(st, noteId) ==
    LET g == MapGet(st.activeVoices, noteId)
        voice == st.gens[g]
        held0 == Append(CancelScheduledValues(voice.events, now),
                        SetEvent(ValueAt(voice.events, now), now))
    IN  IF ~Has(Envelope, "release")
        THEN VoiceState([st.gens EXCEPT ![g].events = held0],
                        st.activeVoices, TRUE)
        ELSE VoiceState(
                 [st.gens EXCEPT
                     ![g].events = Append(held0,
                                      RampEvent(0, now + Envelope.release)),
                     ![g].stopTime = now + Envelope.release + StopMargin],
                 << >>, FALSE)

\* the body of noteOff once the voice is found
releaseVoice(st, noteId) ==
    LET g == MapGet(st.activeVoices, noteId)
        voice == st.gens[g]
        value == ValueAt(voice.events, now)
        held0 == Append(CancelScheduledValues(voice.events, now),
                        SetEvent(value, now))
    IN  IF ~Has(Envelope, "release")
        THEN \* linearRampToValueAtTime(0, NaN) throws
             VoiceState([st.gens EXCEPT ![g].events = held0],
                        st.activeVoices, TRUE)
        ELSE VoiceState(
                 [st.gens EXCEPT
                     ![g].events = Append(held0,
                                      RampEvent(0, now + Envelope.release)),
                     ![g].stopTime = now + Envelope.release + StopMargin],
                 MapDelete(st.activeVoices, noteId), FALSE)

\* no check that the voice exists: reading voice.gain of undefined throws
noteOffUnguarded(st, noteId) ==
    IF ~MapHas(st.activeVoices, noteId)
    THEN VoiceState(st.gens, st.activeVoices, TRUE)
    ELSE releaseVoice(st, noteId)

noteOff(st, noteId) ==
    IF ~MapHas(st.activeVoices, noteId) \/ ~audioContext THEN st
    ELSE releaseVoice(st, noteId)

NoteOff(noteId) ==
    LET st == noteOff(VoiceState(gens, activeVoices, FALSE), noteId)
    IN  /\ gens' = st.gens
        /\ activeVoices' = st.activeVoices
        /\ lastCall' = Call("noteOff", noteId, st.threw, MapHas(activeVoices, noteId))
        /\ UNCHANGED <<audioContext, now, configVars, stageVars, held,
                   drumVars, parse, edgeVars>>

----------------------------------------------------------------------------
(* noteOn(frequency, noteId) *)

Oscillator(frequency, noteId, events, retrigger) ==
    [noteId |-> noteId, frequency |-> frequency, type |-> config.waveform,
     startTime |-> now, events |-> events, stopTime |-> NoStop,
     retrigger |-> retrigger]    \* retrigger: the id was registered at noteOn

\* the body of noteOn after the prior voice was handed to noteOff
startVoice(st, frequency, noteId, retrigger) ==
    IF ~({"attack", "decay", "sustain"} \subseteq DOMAIN Envelope)
    THEN \* a ramp to an undefined value or time throws before start()
         VoiceState(st.gens, st.activeVoices, TRUE)
    ELSE LET events ==
                 <<SetEvent(0, now),
                   RampEvent(AmpOne, now + Envelope.attack),
                   RampEvent(Envelope.sustain,
                             now + Envelope.attack + Envelope.decay)>>
             g == Append(st.gens,
                         Oscillator(frequency, noteId, events, retrigger))
         IN  VoiceState(g, MapSet(st.activeVoices, noteId, Len(g)), FALSE)

\* the voice that holds the id is not handed to noteOff first
noteOnNoRelease(st, frequency, noteId) ==
    IF ~audioContext \/ filter = Null THEN st
    ELSE startVoice(st, frequency, noteId, MapHas(st.activeVoices, noteId))

\* no check that the engine is initialized
noteOnUnguarded(st, frequency, noteId) ==
    LET st1 == noteOff(st, noteId)
    IN  IF st1.threw THEN st1
        ELSE startVoice(st1, frequency, noteId,
                        MapHas(st.activeVoices, noteId))

noteOn(st, frequency, noteId) ==
    IF ~audioContext \/ filter = Null THEN st
    ELSE LET st1 == noteOff(st, noteId)
         IN  IF st1.threw THEN st1
             ELSE startVoice(st1, frequency, noteId,
                             MapHas(st.activeVoices, noteId))

NoteOn(frequency, noteId) ==
    LET st == noteOn(VoiceState(gens, activeVoices, FALSE), frequency, noteId)
    IN  /\ Len(gens) < MaxGens
        /\ gens' = st.gens
        /\ activeVoices' = st.activeVoices
        /\ lastCall' = Call("noteOn", noteId, st.threw, MapHas(activeVoices, noteId))
        /\ UNCHANGED <<audioContext, now, configVars, stageVars, held,
                   drumVars, parse, edgeVars>>

----------------------------------------------------------------------------
(* panic(): noteOff for each key of the Map, in iteration order; a throw    *)
(* ends the loop                                                           *)

RECURSIVE panicLoop(_, _)
panicLoop(st, keys) ==
    IF keys = << >> \/ st.threw THEN st
    ELSE panicLoop(noteOff(st, Head(keys)), Tail(keys))

\* the master gain is zeroed as well
PanicMutesMaster ==
    LET st == panicLoop(VoiceState(gens, activeVoices, FALSE),
                        MapKeys(activeVoices))
    IN  /\ gens' = st.gens
        /\ activeVoices' = st.activeVoices
        /\ masterGain' = IF masterGain # Null THEN GainNode(0) ELSE masterGain
        /\ lastCall' = Call("panic", 0, st.threw, FALSE)
        /\ UNCHANGED <<audioContext, now, configVars, filter, reverbDry,
                       reverbWet, reverbFeedbacks, reverbDampingFilters, held,
                       drumVars, parse, edgeVars>>

Panic ==
    LET st == panicLoop(VoiceState(gens, activeVoices, FALSE),
                        MapKeys(activeVoices))
    IN  /\ gens' = st.gens
        /\ activeVoices' = st.activeVoices
        /\ lastCall' = Call("panic", 0, st.threw, FALSE)
        /\ UNCHANGED <<audioContext, now, configVars, stageVars, held,
                   drumVars, parse, edgeVars>>

----------------------------------------------------------------------------
(* The audio clock advances between calls *)

Tick ==
    /\ now < MaxTime
    /\ now' = now + 1
    /\ UNCHANGED <<audioContext, configVars, stageVars, voiceVars, held,
                   lastCall, drumVars, parse, edgeVars>>

----------------------------------------------------------------------------
(* Callers *)

\* partial configurations passed to setConfig by the UI, the chat tools
\* and the WebSocket bridge
AttackOnly == [attack |-> 20]
NoRelease == [attack |-> 2, decay |-> 1, sustain |-> 50]
ReleaseOnly == [release |-> 1]
FullEnvelope == [attack |-> 2, decay |-> 1, sustain |-> 50, release |-> 1]

\* setConfig(DEFAULT_CONFIG)
ResetPartial == [DEFAULT_CONFIG EXCEPT !.envelope = envObjs[DefaultObj]]

Partials ==
    { [envelope |-> ReleaseOnly],
      [envelope |-> NoRelease],
      [envelope |-> FullEnvelope] }

ConfigPartials ==
    { [gain |-> 80],
      [waveform |-> "square"],
      [filterType |-> "highpass", filterCutoff |-> 500, filterResonance |-> 5],
      [reverbMix |-> 50],
      [reverbDecay |-> 100],
      [reverbDecay |-> 150],      \* out of range: no caller path checks it
      [reverbDamping |-> 100],
      [envelope |-> AttackOnly],
      [envelope |-> NoRelease],
      [envelope |-> FullEnvelope],
      ResetPartial }

AliasPartials ==
    { [envelope |-> FullEnvelope], ResetPartial }

\* a caller writes a top-level field of the object getConfig() returned
MutateReturned(key, value) ==
    /\ held # Null
    /\ held' = [held EXCEPT ![key] = value]
    /\ lastCall' = Call("mutate", 0, FALSE, FALSE)
    /\ UNCHANGED <<audioContext, now, configVars, stageVars, voiceVars,
                   drumVars, parse, edgeVars>>

\* a caller writes a field of the envelope of the object getConfig() returned
MutateReturnedEnvelope(key, value) ==
    /\ held # Null
    /\ envObjs' = [envObjs EXCEPT ![held.envelope] = Spread(@, [k \in {key} |-> value])]
    /\ lastCall' = Call("mutateEnvelope", 0, FALSE, FALSE)
    /\ UNCHANGED <<audioContext, now, config, stageVars, voiceVars, held,
                   drumVars, parse, edgeVars>>

----------------------------------------------------------------------------
(* Specifications *)

\* voices on the audio clock
Next ==
    \/ Initialize
    \/ \E f \in Freqs, k \in NoteIds : NoteOn(f, k)
    \/ \E k \in NoteIds : NoteOff(k)
    \/ Panic
    \/ \E p \in Partials : SetConfig(p)
    \/ Tick

Spec == Init /\ [][Next]_vars

\* the configuration and the shared stages
NextCfg ==
    \/ Initialize
    \/ \E p \in ConfigPartials : SetConfig(p)

SpecCfg == Init /\ [][NextCfg]_vars

\* callers that keep and write the object getConfig() returned
NextAlias ==
    \/ Initialize
    \/ \E p \in AliasPartials : SetConfig(p)
    \/ GetConfig
    \/ MutateReturned("gain", 55)
    \/ \E key \in {"attack", "release"} : MutateReturnedEnvelope(key, 3)
    \/ NoteOn(440, 69)
    \/ NoteOff(69)

SpecAlias == Init /\ [][NextAlias]_vars

----------------------------------------------------------------------------
(* Properties *)

\* what getConfig() shows: the top-level fields and the envelope they reach
DeepConfig == [config EXCEPT !.envelope = Envelope]

SameField(a, b, key) ==
    /\ (key \in DOMAIN a) <=> (key \in DOMAIN b)
    /\ key \in DOMAIN a => a[key] = b[key]

RegisteredCount(m, k) == Cardinality({i \in DOMAIN m : m[i].noteId = k})

(* C1: after initialize, noteOn(f, k) immediately followed by noteOff(k)    *)
(* leaves no registry entry for k: the entry is gone when noteOff returns  *)
C1_NoteOffAfterNoteOnClearsEntry ==
    [][\A k \in NoteIds :
          (/\ audioContext
           /\ lastCall.op = "noteOn" /\ lastCall.id = k /\ ~lastCall.threw
           /\ NoteOff(k))
              => ~MapHas(activeVoices', k)]_vars

(* C2: noteOn(f, k) while k is registered does not throw and leaves        *)
(* exactly one registry entry for k; every state has at most one voice per *)
(* id                                                                      *)
C2_RetriggerKeepsOneEntry ==
    /\ [](\A k \in NoteIds : RegisteredCount(activeVoices, k) <= 1)
    /\ [][\A f \in Freqs, k \in NoteIds :
             (MapHas(activeVoices, k) /\ NoteOn(f, k))
                 => /\ ~lastCall'.threw
                    /\ RegisteredCount(activeVoices', k) = 1]_vars

(* C3: setConfig with an envelope partial changes only the envelope        *)
(* sub-fields the partial names; the other sub-fields read the same from   *)
(* getConfig() after the call as before it                                 *)
C3_EnvelopePartialKeepsUnnamed ==
    [][\A p \in ConfigPartials :
          (Has(p, "envelope") /\ SetConfig(p))
              => \A key \in EnvKeys \ DOMAIN p.envelope :
                     SameField(Envelope, Envelope', key)]_vars

(* C4: setConfig(partial) changes exactly the top-level fields present in  *)
(* partial: a field partial does not name reads the same from getConfig()  *)
(* before and after, a field it names reads the value given                *)
C4_SetConfigTopLevelFrame ==
    [][\A p \in ConfigPartials :
          SetConfig(p)
              => /\ \A key \in DOMAIN config \ DOMAIN p :
                        DeepConfig'[key] = DeepConfig[key]
                 /\ \A key \in DOMAIN p : DeepConfig'[key] = p[key]
                 /\ DOMAIN config' = DOMAIN config]_vars

\* W_C4: three fields set by three separate calls are all still in place
W_C4 ==
    /\ lastCall.op = "setConfig"
    /\ config.gain = 80 /\ config.reverbMix = 50 /\ config.waveform = "square"
    /\ config.reverbDecay = DEFAULT_CONFIG.reverbDecay
    /\ Envelope = DEFAULT_ENVELOPE

(* C5: getConfig() returns a copy: no write to the returned object, nor to *)
(* a field of its envelope, changes what a later getConfig() returns or    *)
(* the envelope a later noteOn / noteOff uses                              *)
C5_ReturnedConfigIsACopy ==
    [][(MutateReturned("gain", 55)
          \/ \E key \in EnvKeys : MutateReturnedEnvelope(key, 3))
         => DeepConfig' = DeepConfig]_vars

\* an oscillator sounds from start() to its scheduled stop()
Running(g) == now >= g.startTime /\ (g.stopTime = NoStop \/ now < g.stopTime)
Amp(g) == ValueAt(g.events, now)
Registered(i) == \E e \in DOMAIN activeVoices : activeVoices[e].gen = i
Last(seq) == seq[Len(seq)]

\* the generator the retrigger that started gens[j] found in the registry
Prior(j) ==
    CHOOSE i \in 1 .. (j - 1) :
        /\ gens[i].noteId = gens[j].noteId
        /\ \A h \in (i + 1) .. (j - 1) : gens[h].noteId # gens[j].noteId

Newest(j) == \A h \in DOMAIN gens : gens[h].noteId = gens[j].noteId => h <= j

C8_PanicEmptiesRegistry == lastCall.op = "panic" => activeVoices = << >>

(* C9: before initialize has succeeded, noteOn, noteOff and panic do not   *)
(* throw and are no-ops: no generator is created, the registry and the     *)
(* configuration are unchanged                                             *)
C9_NoOpBeforeInitialize ==
    [][(/\ ~audioContext
        /\ \/ \E f \in Freqs, k \in NoteIds : NoteOn(f, k)
           \/ \E k \in NoteIds : NoteOff(k)
           \/ Panic)
         => /\ ~lastCall'.threw
            /\ gens' = << >>
            /\ UNCHANGED <<gens, activeVoices, config, envObjs>>]_vars

\* W_C9: noteOn was called before initialize, under an envelope whose
\* ramps would have thrown
W_C9 ==
    /\ ~audioContext
    /\ lastCall.op = "noteOn" /\ ~lastCall.threw
    /\ ~Has(Envelope, "attack")
    /\ gens = << >> /\ activeVoices = << >>

(* C10: noteOff(k) for an id that is not registered is a no-op: registry,  *)
(* configuration and every voice's schedule are unchanged, so a second     *)
(* noteOff schedules no second release ramp and no second stop             *)
C10_NoteOffUnknownIdIsNoOp ==
    [][\A k \in NoteIds :
          (~MapHas(activeVoices, k) /\ NoteOff(k))
              => /\ ~lastCall'.threw
                 /\ UNCHANGED <<gens, activeVoices, config, envObjs,
                                stageVars>>]_vars

\* W_C10: a second noteOff for an id whose voice was already released,
\* while another voice is registered
W_C10 ==
    /\ audioContext
    /\ lastCall.op = "noteOff" /\ ~lastCall.found /\ ~lastCall.threw
    /\ \E i \in DOMAIN gens :
           /\ gens[i].noteId = lastCall.id
           /\ gens[i].stopTime # NoStop
           /\ Running(gens[i])
    /\ \E i \in DOMAIN gens : gens[i].noteId # lastCall.id /\ Registered(i)

----------------------------------------------------------------------------
(* panic() against noteOff for every registered id *)

\* every order in which the ids of a key sequence can be visited
Orders(keys) ==
    {o \in [DOMAIN keys -> DOMAIN keys] :
         \A i, j \in DOMAIN keys : o[i] = o[j] => i = j}

\* a caller calls noteOff(id) for each id in turn, whatever a call did
RECURSIVE noteOffEach(_, _)
noteOffEach(st, ids) ==
    IF ids = << >> THEN st
    ELSE LET st1 == noteOff([st EXCEPT !.threw = FALSE], Head(ids))
         IN  noteOffEach([st1 EXCEPT !.threw = st.threw \/ st1.threw],
                         Tail(ids))

\* C11: panic() leaves the registry and every voice's schedule as calling
\* noteOff for every registered id does, in whatever order the ids are
\* taken, and a panic() right after a panic(), or with no voice registered,
\* changes nothing.
C11_PanicIsNoteOffForEveryId ==
    [][Panic =>
          /\ \A o \in Orders(MapKeys(activeVoices)) :
                 LET keys == MapKeys(activeVoices)
                     st == noteOffEach(VoiceState(gens, activeVoices, FALSE),
                                       [i \in DOMAIN keys |-> keys[o[i]]])
                 IN  /\ gens' = st.gens
                     /\ activeVoices' = st.activeVoices
          /\ (activeVoices = << >> \/ lastCall.op = "panic")
                 => UNCHANGED voiceVars]_vars

----------------------------------------------------------------------------
(* initialize() *)

\* C12: initialize() on an initialized engine creates no context and no
\* stage: the four delay lines stay four, and the registry, the voices, the
\* configuration and every stage parameter are as before the call.
C12_InitializeIsIdempotent ==
    [][(audioContext /\ Initialize) =>
          /\ UNCHANGED <<audioContext, stageVars, voiceVars, configVars>>
          /\ Len(reverbFeedbacks') = Len(delayTimes)
          /\ Len(reverbDampingFilters') = Len(delayTimes)
          /\ Len(delayTimes) >= 3]_vars

\* initialize() was called with voices sounding, so on an initialized engine
W_C12 ==
    /\ lastCall.op = "initialize"
    /\ audioContext
    /\ activeVoices # << >>
    /\ Len(reverbFeedbacks) = 4

----------------------------------------------------------------------------
(* The shared stages against the configuration *)

\* C13: on an initialized engine the live stage parameters are those of the
\* current configuration: master gain = gain, the filter's type, cutoff and
\* resonance, dry gain = 1 - reverbMix, wet gain = reverbMix; this includes
\* values setConfig stored before initialize().
C13_StagesFollowConfig ==
    audioContext =>
        /\ masterGain = GainNode(config.gain)
        /\ filter.type = config.filterType
        /\ filter.frequency = config.filterCutoff
        /\ filter.Q = config.filterResonance
        /\ reverbDry = GainNode(AmpOne - config.reverbMix)
        /\ reverbWet = GainNode(config.reverbMix)

\* initialize() ran on a configuration that is not the default one
W_C13 ==
    /\ audioContext
    /\ lastCall.op = "initialize"
    /\ config.gain = 80
    /\ config.reverbMix = 50
    /\ config.filterType = "highpass"
    /\ masterGain.gain = 80
    /\ reverbDry.gain = 50

\* C14: on an initialized engine the four delay lines have one feedback gain
\* and one damping cutoff, the values mapped from the current reverbDecay
\* and reverbDamping: no setConfig leaves some lines updated and others not.
C14_DelayLinesAgree ==
    audioContext =>
        /\ Len(reverbFeedbacks) = Len(delayTimes)
        /\ Len(reverbDampingFilters) = Len(delayTimes)
        /\ \A i \in DOMAIN delayTimes :
               /\ reverbFeedbacks[i] = FeedbackGain(config.reverbDecay)
               /\ reverbDampingFilters[i] = DampingFreq(config.reverbDamping)

\* setConfig changed decay and damping of an initialized engine
W_C14 ==
    /\ audioContext
    /\ lastCall.op = "setConfig"
    /\ config.reverbDecay = 100
    /\ config.reverbDamping = 100
    /\ reverbFeedbacks[4] = 9500
    /\ reverbDampingFilters[4] = 2000

----------------------------------------------------------------------------
(* Voice calls against the configuration and the shared stages *)

\* C15: noteOn, noteOff and panic leave the configuration and every shared
\* stage parameter as they were; a step that changes one of them is a
\* setConfig, or the initialize() that builds the stages.
C15_VoiceCallsLeaveConfigAndStages ==
    [][/\ ((\E f \in Freqs, k \in NoteIds : NoteOn(f, k))
             \/ (\E k \in NoteIds : NoteOff(k))
             \/ Panic)
          => UNCHANGED <<configVars, stageVars>>
       /\ ~(UNCHANGED <<configVars, stageVars>>)
          => \/ lastCall'.op = "setConfig"
             \/ lastCall'.op = "initialize" /\ ~audioContext]_vars

\* panic() released two voices of an engine whose envelope was edited
W_C15 ==
    /\ lastCall.op = "panic"
    /\ ~lastCall.threw
    /\ Len(gens) = 2
    /\ activeVoices = << >>
    /\ Envelope = FullEnvelope
    /\ masterGain = GainNode(config.gain)
    /\ filter = FilterNode(config)

----------------------------------------------------------------------------
(* The schedules noteOff and noteOn issue *)

\* the ramps of a schedule that end at or after t
PendingRamps(events, t) ==
    {i \in DOMAIN events : events[i].kind = "ramp" /\ events[i].time >= t}

\* C16: noteOff(k) for a registered k at time t drops the ramps pending on
\* the voice's gain and leaves exactly one: a linear ramp from the amplitude
\* captured at t down to 0 that ends at t + release; the generator's stop
\* is scheduled strictly after the ramp's end, at t + release + 10 ms.
C16_NoteOffSchedulesRelease ==
    [][\A k \in NoteIds :
          (audioContext /\ MapHas(activeVoices, k) /\ NoteOff(k)) =>
              LET g == MapGet(activeVoices, k)
                  captured == ValueAt(gens[g].events, now)
                  after == gens'[g].events
              IN  /\ Has(Envelope, "release")
                  /\ PendingRamps(after, now) = {Len(after)}
                  /\ after[Len(after)] = RampEvent(0, now + Envelope.release)
                  /\ after[Len(after) - 1] = SetEvent(captured, now)
                  /\ \A i \in 1 .. Len(after) - 2 :
                         after[i].time < now /\ after[i] = gens[g].events[i]
                  /\ gens'[g].stopTime = now + Envelope.release + StopMargin
                  /\ gens'[g].stopTime > now + Envelope.release]_vars

\* C17: noteOn at time t starts one generator with the configuration's
\* waveform and issues its envelope once: amplitude 0 at t, a ramp to 1
\* ending at t + attack, a ramp to sustain ending at t + attack + decay,
\* with the envelope values the configuration has at the call.
C17_NoteOnSchedulesEnvelope ==
    [][\A f \in Freqs, k \in NoteIds :
          (audioContext /\ NoteOn(f, k)) =>
              /\ {"attack", "decay", "sustain"} \subseteq DOMAIN Envelope
              /\ Len(gens') = Len(gens) + 1
              /\ MapHas(activeVoices', k)
              /\ MapGet(activeVoices', k) = Len(gens')
              /\ LET voice == gens'[Len(gens')]
                 IN  /\ voice.type = config.waveform
                     /\ voice.frequency = f
                     /\ voice.startTime = now
                     /\ voice.stopTime = NoStop
                     /\ voice.events =
                            <<SetEvent(0, now),
                              RampEvent(AmpOne, now + Envelope.attack),
                              RampEvent(Envelope.sustain,
                                  now + Envelope.attack + Envelope.decay)>>]_vars

----------------------------------------------------------------------------
(* DrumEngine: one-shot percussion on the synth's audio context, connected  *)
(* to the context's destination                                            *)

MaxDrumGens == 2

DrumTypes == {"kick", "snare", "hihat-closed", "hihat-open"}

\* a started source: stopTime is when it ends, decayEnd when its gain
\* envelope reaches 0.01
DrumSource(drum, node, stopTime, decayEnd) ==
    [drum |-> drum, node |-> node, startTime |-> now, stopTime |-> stopTime,
     decayEnd |-> decayEnd]

\* the buffer source loops and is never stopped
NoiseSourceLooping(drum, duration, decay) ==
    DrumSource(drum, "noise", NoStop, now + decay)

\* createNoiseBuffer(duration) played once by a buffer source: noise.start(now)
NoiseSource(drum, duration, decay) ==
    DrumSource(drum, "noise", now + duration, now + decay)

playKick ==
    <<DrumSource("kick", "oscillator", now + 40, now + 40),
      DrumSource("kick", "click", now + 2, now + 1)>>

playSnare ==
    <<NoiseSource("snare", 20, 15),
      DrumSource("snare", "oscillator", now + 10, now + 8)>>

playHiHat(drum, duration) == <<NoiseSource(drum, duration, duration)>>

trigger(drum) ==
    CASE drum = "kick" -> playKick
      [] drum = "snare" -> playSnare
      [] drum = "hihat-closed" -> playHiHat(drum, 5)
      [] drum = "hihat-open" -> playHiHat(drum, 30)
      [] OTHER -> << >>

\* new DrumEngine(ctx, ctx.destination), once the synth has a context
NewDrumEngine ==
    /\ audioContext
    /\ drumOutput = Null
    /\ drumOutput' = GainNode(80)
    /\ lastCall' = Call("newDrumEngine", 0, FALSE, FALSE)
    /\ UNCHANGED <<audioContext, now, configVars, stageVars, voiceVars, held,
                   drumGens, parse, edgeVars>>

Trigger(drum) ==
    /\ drumOutput # Null
    /\ Len(drumGens) + 2 <= MaxDrumGens
    /\ drumGens' = drumGens \o trigger(drum)
    /\ lastCall' = Call("trigger", 0, FALSE, FALSE)
    /\ UNCHANGED <<audioContext, now, configVars, stageVars, voiceVars, held,
                   drumOutput, parse, edgeVars>>

\* the value is written as given
setVolumeUnclamped(value) == value

\* Math.max(0, Math.min(1, value))
setVolume(value) ==
    LET m == IF value < AmpOne THEN value ELSE AmpOne
    IN  IF m > 0 THEN m ELSE 0

SetVolume(value) ==
    /\ drumOutput # Null
    /\ drumOutput' = GainNode(setVolume(value))
    /\ lastCall' = Call("setVolume", 0, FALSE, FALSE)
    /\ UNCHANGED <<audioContext, now, configVars, stageVars, voiceVars, held,
                   drumGens, parse, edgeVars>>

\* the drum track's panic(): there is nothing to stop
DrumTrackPanic ==
    /\ drumOutput # Null
    /\ lastCall' = Call("drumPanic", 0, FALSE, FALSE)
    /\ UNCHANGED <<audioContext, now, configVars, stageVars, voiceVars, held,
                   drumVars, parse, edgeVars>>

\* volumes a caller passes, in hundredths
Volumes == {-50, 50, 150}

\* percussion next to one synth voice
NextDrum ==
    \/ Initialize
    \/ NewDrumEngine
    \/ \E drum \in DrumTypes : Trigger(drum)
    \/ \E v \in Volumes : SetVolume(v)
    \/ DrumTrackPanic
    \/ NoteOn(440, 69)
    \/ NoteOff(69)
    \/ Panic
    \/ Tick

SpecDrum == Init /\ [][NextDrum]_vars

----------------------------------------------------------------------------
(* Percussion hits *)

\* the time, in ticks, within which a hit of each drum type is over
HitDuration(drum) ==
    CASE drum = "kick" -> 40
      [] drum = "snare" -> 20
      [] drum = "hihat-closed" -> 5
      [] drum = "hihat-open" -> 30

\* C18: every source a trigger starts has an end time, within the fixed
\* duration of its drum type; no later call (synth panic, noteOff, the drum
\* track's panic, any other) changes or removes a started source; a trigger
\* leaves the synth's registry and voices and the drum engine's own fields
\* as they were.
C18_HitsSelfTerminate ==
    [][/\ \A i \in DOMAIN drumGens' :
              /\ drumGens'[i].stopTime # NoStop
              /\ drumGens'[i].stopTime >= drumGens'[i].startTime
              /\ drumGens'[i].stopTime
                     <= drumGens'[i].startTime + HitDuration(drumGens'[i].drum)
       /\ \A i \in DOMAIN drumGens :
              i \in DOMAIN drumGens' /\ drumGens'[i] = drumGens[i]
       /\ (Panic \/ NoteOff(69) \/ DrumTrackPanic) => UNCHANGED drumGens
       /\ \A drum \in DrumTypes :
              Trigger(drum) =>
                  /\ UNCHANGED <<voiceVars, drumOutput, edgeVars>>
                  /\ Len(drumGens') > Len(drumGens)]_vars

\* panic() released a synth voice while a snare hit was sounding
W_C18 ==
    /\ lastCall.op = "panic"
    /\ gens # << >>
    /\ gens[1].stopTime # NoStop
    /\ drumGens # << >>
    /\ drumGens[1].drum = "snare"
    /\ drumGens[1].node = "noise"
    /\ drumGens[1].stopTime = drumGens[1].startTime + 20
    /\ drumGens[1].stopTime > now

\* C19: setVolume(v) writes the percussion output gain only, with v clamped
\* into [0, 1]; a trigger leaves that gain as it was; neither call changes
\* the synth's configuration or master gain.
C19_SetVolumeWritesOnlyDrumGain ==
    [][/\ \A v \in Volumes :
              SetVolume(v) =>
                  /\ drumOutput'.gain =
                         (IF v < 0 THEN 0 ELSE IF v > AmpOne THEN AmpOne ELSE v)
                  /\ drumOutput'.gain \in 0 .. AmpOne
                  /\ UNCHANGED <<audioContext, configVars, stageVars,
                                 voiceVars, drumGens, edgeVars>>
       /\ \A drum \in DrumTypes :
              Trigger(drum) => UNCHANGED <<drumOutput, configVars, stageVars, edgeVars>>]_vars

\* a kick was triggered after setVolume(1.5) was clamped to 1
W_C19 ==
    /\ lastCall.op = "trigger"
    /\ drumOutput = GainNode(AmpOne)
    /\ drumGens # << >>
    /\ drumGens[1].drum = "kick"
    /\ masterGain = GainNode(config.gain)

----------------------------------------------------------------------------
(* Note names: a name is the sequence of its characters *)

Letters == {"A", "B", "C", "D", "E", "F", "G"}
LowerLetters == {"a", "b", "c", "d", "e", "f", "g"}
Digits == {"0", "1", "2", "3", "4", "5", "6", "7", "8", "9"}

\* String.prototype.toUpperCase, on the characters a note name can hold
UpperChar(c) ==
    CASE c = "a" -> "A" [] c = "b" -> "B" [] c = "c" -> "C" [] c = "d" -> "D"
      [] c = "e" -> "E" [] c = "f" -> "F" [] c = "g" -> "G" [] OTHER -> c

toUpperCase(s) == [i \in DOMAIN s |-> UpperChar(s[i])]

DigitValue(c) ==
    CASE c = "0" -> 0 [] c = "1" -> 1 [] c = "2" -> 2 [] c = "3" -> 3
      [] c = "4" -> 4 [] c = "5" -> 5 [] c = "6" -> 6 [] c = "7" -> 7
      [] c = "8" -> 8 [] c = "9" -> 9

\* the characters of s from position i on
From(s, i) == SubSeq(s, i, Len(s))

\* \d+
IsDigits(s) == s # << >> /\ \A i \in DOMAIN s : s[i] \in Digits

\* -?\d+
IsSignedDigits(s) ==
    \/ IsDigits(s)
    \/ s # << >> /\ s[1] = "-" /\ IsDigits(Tail(s))

RECURSIVE parseDigits(_)
parseDigits(s) ==
    IF s = << >> THEN 0
    ELSE parseDigits(SubSeq(s, 1, Len(s) - 1)) * 10 + DigitValue(s[Len(s)])

\* parseInt(s, 10) on a string that matched -?\d+
parseInt(s) == IF s[1] = "-" THEN -parseDigits(Tail(s)) ELSE parseDigits(s)

Returned(midi) == [ok |-> TRUE, midi |-> midi]
ReturnedNull == [ok |-> FALSE, error |-> "null"]
Thrown(message) == [ok |-> FALSE, error |-> message]

\* the MCP server's noteMap
noteMap ==
    <<"C">> :> 0 @@ <<"C", "#">> :> 1 @@ <<"D", "b">> :> 1 @@ <<"D">> :> 2
    @@ <<"D", "#">> :> 3 @@ <<"E", "b">> :> 3 @@ <<"E">> :> 4 @@ <<"F">> :> 5
    @@ <<"F", "#">> :> 6 @@ <<"G", "b">> :> 6 @@ <<"G">> :> 7
    @@ <<"G", "#">> :> 8 @@ <<"A", "b">> :> 8 @@ <<"A">> :> 9
    @@ <<"A", "#">> :> 10 @@ <<"B", "b">> :> 10 @@ <<"B">> :> 11

\* the MCP server's noteNameToMidi: /^([A-G][#b]?)(\d+)$/i
mcpNoteNameToMidi(noteName) ==
    LET accidental == Len(noteName) >= 2 /\ noteName[2] \in {"#", "b", "B"}
        note == IF accidental THEN SubSeq(noteName, 1, 2)
                ELSE SubSeq(noteName, 1, 1)
        octaveStr == From(noteName, Len(note) + 1)
        matches == /\ noteName # << >>
                   /\ noteName[1] \in Letters \cup LowerLetters
                   /\ IsDigits(octaveStr)
    IN  IF ~matches THEN Thrown("Invalid note name")
        ELSE IF toUpperCase(note) \notin DOMAIN noteMap
        THEN Thrown("Unknown note")
        ELSE Returned((parseInt(octaveStr) + 1) * 12
                          + noteMap[toUpperCase(note)])

NOTE_NAMES ==
    << <<"C">>, <<"C", "#">>, <<"D">>, <<"D", "#">>, <<"E">>, <<"F">>,
       <<"F", "#">>, <<"G">>, <<"G", "#">>, <<"A">>, <<"A", "#">>, <<"B">> >>

\* the engine's noteNameToMidi: /^([A-G])([#]?)(-?\d+)$/i
noteNameToMidi(noteName) ==
    LET sharp == Len(noteName) >= 2 /\ noteName[2] = "#"
        octaveStr == From(noteName, IF sharp THEN 3 ELSE 2)
        matches == /\ noteName # << >>
                   /\ noteName[1] \in Letters \cup LowerLetters
                   /\ IsSignedDigits(octaveStr)
        noteBase == UpperChar(noteName[1])
        fullNote == IF sharp THEN <<noteBase, "#">> ELSE <<noteBase>>
    IN  IF ~matches THEN ReturnedNull
        ELSE IF \A i \in DOMAIN NOTE_NAMES : NOTE_NAMES[i] # fullNote
        THEN ReturnedNull
        ELSE Returned((parseInt(octaveStr) + 1) * 12
                 + (CHOOSE i \in DOMAIN NOTE_NAMES : NOTE_NAMES[i] = fullNote)
                 - 1)

\* the note names callers send
Octaves == { <<"2">>, <<"4">>, <<"1", "0">>, <<"-", "1">> }
NoteInputs ==
    {<<l>> \o a \o o : l \in Letters \cup LowerLetters,
                       a \in { << >>, <<"#">>, <<"b">> }, o \in Octaves}
        \cup { <<"H", "4">>, <<"6", "0">> }

McpNoteNameToMidi(noteName) ==
    /\ parse' = [parser |-> "mcp", noteName |-> noteName,
                 result |-> mcpNoteNameToMidi(noteName)]
    /\ UNCHANGED <<audioContext, now, configVars, stageVars, voiceVars, held,
                   lastCall, drumVars, edgeVars>>

EngineNoteNameToMidi(noteName) ==
    /\ parse' = [parser |-> "engine", noteName |-> noteName,
                 result |-> noteNameToMidi(noteName)]
    /\ UNCHANGED <<audioContext, now, configVars, stageVars, voiceVars, held,
                   lastCall, drumVars, edgeVars>>

NextNotes ==
    \/ \E n \in NoteInputs : McpNoteNameToMidi(n)
    \/ \E n \in NoteInputs : EngineNoteNameToMidi(n)

SpecNotes == Init /\ [][NextNotes]_vars

\* Db, Eb, Gb, Ab, Bb followed by an octave number
IsFlatName(noteName) ==
    /\ Len(noteName) >= 3
    /\ noteName[1] \in {"D", "E", "G", "A", "B"}
    /\ noteName[2] = "b"
    /\ IsDigits(From(noteName, 3))

\* the sharp name of the same pitch: Db -> C#, Eb -> D#, ...
EnharmonicSharp(noteName) ==
    LET l == noteName[1]
        below == CASE l = "D" -> "C" [] l = "E" -> "D" [] l = "G" -> "F"
                   [] l = "A" -> "G" [] l = "B" -> "A"
    IN  <<below, "#">> \o From(noteName, 3)

FlatSemitone(letter) ==
    CASE letter = "D" -> 1 [] letter = "E" -> 3 [] letter = "G" -> 6
      [] letter = "A" -> 8 [] letter = "B" -> 10

\* C20: for every flat name Db, Eb, Gb, Ab, Bb and octave o the MCP server's
\* parser returns the MIDI number of the enharmonic sharp,
\* (o + 1) * 12 + semitone, and the engine's noteNameToMidi returns null.
C20_FlatsAreAliasesAtTheEdge ==
    (parse # Null /\ IsFlatName(parse.noteName)) =>
        /\ parse.parser = "mcp" =>
               /\ parse.result =
                      Returned((parseInt(From(parse.noteName, 3)) + 1) * 12
                                   + FlatSemitone(parse.noteName[1]))
               /\ parse.result =
                      mcpNoteNameToMidi(EnharmonicSharp(parse.noteName))
        /\ parse.parser = "engine" => parse.result = ReturnedNull

----------------------------------------------------------------------------
(* Generators, the registry and the ramps of one voice *)

\* C22: every generator the engine has started is the one the registry
\* holds under its id, or has a stop scheduled: no noteOn, noteOff, panic or
\* setConfig leaves a generator running that is neither.
C22_NoOrphanedGenerator ==
    \A i \in DOMAIN gens :
        \/ /\ MapHas(activeVoices, gens[i].noteId)
           /\ MapGet(activeVoices, gens[i].noteId) = i
        \/ gens[i].stopTime # NoStop

\* after a retrigger and a setConfig: the first generator is released and
\* out of the registry, the second one is registered and has no stop
W_C22 ==
    /\ lastCall.op = "setConfig"
    /\ Len(gens) = 2
    /\ gens[1].noteId = gens[2].noteId
    /\ ~Registered(1) /\ gens[1].stopTime # NoStop
    /\ Registered(2) /\ gens[2].stopTime = NoStop

\* the release ramps of a schedule: the ramps down to 0 (every sustain level
\* an envelope carries here is above 0)
ReleaseRamps(events) ==
    {i \in DOMAIN events : events[i].kind = "ramp" /\ events[i].value = 0}

\* C23: a voice's release ramp is the last event of its schedule and starts
\* from an amplitude pinned no earlier than the voice's noteOn; no attack or
\* decay ramp is pending from that time on, in any state, and a generator
\* with a stop scheduled has its release ramp.
C23_ReleaseSupersedesAttack ==
    \A g \in DOMAIN gens :
        LET events == gens[g].events
        IN  /\ gens[g].stopTime # NoStop => ReleaseRamps(events) # {}
            /\ \A r \in ReleaseRamps(events) :
                   /\ r = Len(events)
                   /\ r >= 2
                   /\ events[r - 1].kind = "set"
                   /\ events[r - 1].time >= gens[g].startTime
                   /\ events[r].time >= events[r - 1].time
                   /\ \A i \in 1 .. (r - 2) :
                          events[i].time < events[r - 1].time

\* noteOff released a voice after its noteOn, while its decay ramp was
\* pending
W_C23 ==
    /\ lastCall.op = "noteOff"
    /\ gens # << >>
    /\ gens[1].stopTime # NoStop
    /\ Len(gens[1].events) = 3
    /\ gens[1].events[2].kind = "set"
    /\ gens[1].events[2].time > gens[1].startTime
    /\ gens[1].events[3].kind = "ramp"

----------------------------------------------------------------------------
(* The feedback gain of the delay lines, in 1e-4 *)

\* C24: each delay line's feedback gain is 0.3 + decay * 0.65 and stays
\* within [0.3, 0.95], so below 1, after any sequence of setConfig calls.
C24_FeedbackGainStaysInRange ==
    audioContext =>
        \A i \in DOMAIN reverbFeedbacks :
            /\ reverbFeedbacks[i] = 3000 + config.reverbDecay * 65
            /\ reverbFeedbacks[i] >= 3000
            /\ reverbFeedbacks[i] <= 9500
            /\ reverbFeedbacks[i] < 10000

\* C24, amended: each delay line's feedback gain is 0.3 + decay * 0.65; it
\* is within [0.3, 0.95] exactly when the stored decay is within [0, 1],
\* and a decay above 1 is mapped as it is, to a gain above 0.95.
C24_FeedbackGainFollowsDecay ==
    audioContext =>
        \A i \in DOMAIN reverbFeedbacks :
            /\ reverbFeedbacks[i] = 3000 + config.reverbDecay * 65
            /\ (reverbFeedbacks[i] >= 3000 /\ reverbFeedbacks[i] <= 9500)
                   <=> (config.reverbDecay >= 0 /\ config.reverbDecay <= 100)
            /\ config.reverbDecay > 100 => reverbFeedbacks[i] > 9500

\* setConfig stored a decay of 1.5 and every loop gain is 1.275
W_C24 ==
    /\ audioContext
    /\ lastCall.op = "setConfig"
    /\ config.reverbDecay = 150
    /\ \A i \in DOMAIN delayTimes : reverbFeedbacks[i] = 12750

----------------------------------------------------------------------------
(* What noteOff and setConfig leave alone *)

\* C25: noteOff(k) touches voice k only: every other registry entry stays,
\* in the same order, and every generator but the one registered under k
\* keeps its schedule and its stop time (none is scheduled by this call).
C25_NoteOffTouchesOnlyItsVoice ==
    [][\A k \in NoteIds :
          NoteOff(k) =>
              /\ MapDelete(activeVoices', k) = MapDelete(activeVoices, k)
              /\ Len(gens') = Len(gens)
              /\ \A i \in DOMAIN gens :
                     (MapHas(activeVoices, k) /\ MapGet(activeVoices, k) = i)
                         \/ gens'[i] = gens[i]]_vars

\* noteOff(60) released its voice while the voice of 69 stays registered
\* with its attack and decay ramps and no stop
W_C25 ==
    /\ lastCall = Call("noteOff", 60, FALSE, TRUE)
    /\ Len(gens) = 2
    /\ gens[1].noteId = 60 /\ gens[1].stopTime # NoStop
    /\ gens[2].noteId = 69 /\ gens[2].stopTime = NoStop
    /\ Len(gens[2].events) = 3
    /\ activeVoices = <<[noteId |-> 69, gen |-> 2]>>

----------------------------------------------------------------------------
(* The command bridge (WebSocketClient.handleMessage): play_note, stop_note *)
(* and panic. A handler first initializes the synth when it is not; its    *)
(* await resumes before any other event is handled.                        *)

\* what play_note records for a command: the generator its noteOn started,
\* when its timer is due (NoStop: no duration given), and whether a
\* stop_note for its note or a panic was handled after it
Command(noteId, gen, due) ==
    [noteId |-> noteId, gen |-> gen, start |-> now, due |-> due,
     stopped |-> FALSE]

\* if (!this.synth.isInitialized()) await this.synth.initialize()
AutoInitialize ==
    IF audioContext THEN UNCHANGED <<audioContext, stageVars>>
    ELSE BuildStages(config)

\* durations of play_note in ticks; 0: no duration given
Durations == {0, 1, 2}

PlayNote(midiNote, duration) ==
    LET st0 == VoiceState(gens, activeVoices, FALSE)
        \* on a synth initialized by this handler the registry is empty
        st == IF audioContext THEN noteOn(st0, 440, midiNote)
              ELSE startVoice(st0, 440, midiNote, FALSE)
    IN  /\ Len(gens) < MaxGens
        /\ AutoInitialize
        /\ gens' = st.gens
        /\ activeVoices' = st.activeVoices
        /\ lastCall' = Call("play_note", midiNote, st.threw, FALSE)
        /\ IF st.threw
           THEN UNCHANGED playVars
           ELSE /\ played' = Append(played,
                        Command(midiNote, Len(st.gens),
                                IF duration = 0 THEN NoStop
                                ELSE now + duration))
                /\ timers' = IF duration = 0 THEN timers
                             ELSE timers \cup {Len(played) + 1}
        /\ UNCHANGED <<now, configVars, held, drumVars, parse, trackVars,
                       mcpVars, keyVars>>

\* the setTimeout callback of command c: this.synth.noteOff(midiNote)
TimerFires(c) ==
    LET st == noteOff(VoiceState(gens, activeVoices, FALSE), played[c].noteId)
    IN  /\ c \in timers
        /\ played[c].due <= now
        /\ gens' = st.gens
        /\ activeVoices' = st.activeVoices
        /\ timers' = timers \ {c}
        /\ lastCall' = Call("timer", played[c].noteId, st.threw, FALSE)
        /\ UNCHANGED <<audioContext, now, configVars, stageVars, held,
                       drumVars, parse, played, trackVars, mcpVars,
                       keyVars>>

StopNote(midiNote) ==
    LET st == noteOff(VoiceState(gens, activeVoices, FALSE), midiNote)
    IN  /\ AutoInitialize
        /\ gens' = st.gens
        /\ activeVoices' = st.activeVoices
        /\ played' = [c \in DOMAIN played |->
                         IF played[c].noteId = midiNote
                         THEN [played[c] EXCEPT !.stopped = TRUE]
                         ELSE played[c]]
        /\ lastCall' = Call("stop_note", midiNote, st.threw, FALSE)
        /\ UNCHANGED <<now, configVars, held, drumVars, parse, timers,
                       trackVars, mcpVars, keyVars>>

PanicCommand ==
    LET st == panicLoop(VoiceState(gens, activeVoices, FALSE),
                        MapKeys(activeVoices))
    IN  /\ AutoInitialize
        /\ gens' = st.gens
        /\ activeVoices' = st.activeVoices
        /\ played' = [c \in DOMAIN played |->
                         [played[c] EXCEPT !.stopped = TRUE]]
        /\ lastCall' = Call("panic_command", 0, st.threw, FALSE)
        /\ UNCHANGED <<now, configVars, held, drumVars, parse, timers,
                       trackVars, mcpVars, keyVars>>

\* the clock advances once every due timer has fired
TickAfterTimers ==
    /\ \A c \in timers : played[c].due > now
    /\ Tick

NextPlay ==
    \/ \E k \in NoteIds, d \in Durations : PlayNote(k, d)
    \/ \E c \in timers : TimerFires(c)
    \/ \E k \in NoteIds : StopNote(k)
    \/ PanicCommand
    \/ TickAfterTimers

SpecPlay == Init /\ [][NextPlay]_vars

\* C21: the voice a play_note command starts stays registered until the
\* command's own duration has elapsed, or for good when it has none, unless
\* a stop_note for its note or a panic was handled after it started.
C21_PlayNoteHoldsItsOwnDuration ==
    \A c \in DOMAIN played :
        (~played[c].stopped /\ (played[c].due = NoStop \/ now < played[c].due))
            => /\ MapHas(activeVoices, played[c].noteId)
               /\ MapGet(activeVoices, played[c].noteId) = played[c].gen

----------------------------------------------------------------------------
(* The synth track engine (createSynthTrackEngine): trigger sets a note-off *)
(* timeout per row, panic clears them                                      *)

MaxTrackTime == 6

\* midiToFrequency, in whole Hz, for the notes of the rows and of the keys
midiToFrequency(midiNote) ==
    CASE midiNote = 69 -> 440
      [] midiNote = 24 -> 33
      [] midiNote = 36 -> 65
      [] midiNote = 48 -> 131
      [] midiNote = 60 -> 262
      [] midiNote = 72 -> 523
      [] midiNote = 84 -> 1047
      [] midiNote = 96 -> 2093
      [] midiNote = 108 -> 4186
      [] OTHER -> 0

\* noteToFrequency(rowId): 0 stands for null
noteToFrequency(rowId) ==
    LET midi == noteNameToMidi(rowId)
    IN  IF ~midi.ok THEN 0 ELSE midiToFrequency(midi.midi)

\* the rows of a pattern; the last one is not a note name
TrackRows == { <<"A", "4">>, <<"C", "4">>, <<"k", "i", "c", "k">> }

\* stepDuration * 0.8 in ticks, for the 50 ms step of 300 bpm
StepTimeouts == {4}

\* freq + Math.random() * 0.001: an id no generator and no timeout carries
FreshNoteId(freq) ==
    LET used == {gens[i].noteId : i \in DOMAIN gens}
                    \cup {t.noteId : t \in trackTimers}
        k == CHOOSE n \in 1 .. (Len(gens) + Cardinality(trackTimers) + 1) :
                 /\ freq * 1000 + n \notin used
                 /\ \A m \in 1 .. (n - 1) : freq * 1000 + m \in used
    IN  freq * 1000 + k

\* clearTimeout(id)
ClearTimeout(pending, id) == {t \in pending : t.noteId # id}

\* the timeout of the row is cleared before the new one is set
clearExisting(pending, rowId) ==
    IF rowId \in DOMAIN activeNotes
    THEN ClearTimeout(pending, activeNotes[rowId])
    ELSE pending

TrackTrigger(rowId, timeout) ==
    LET freq == noteToFrequency(rowId)
        noteId == FreshNoteId(freq)
        st == noteOn(VoiceState(gens, activeVoices, FALSE), freq, noteId)
        cleared == clearExisting(trackTimers, rowId)
    IN  /\ Len(gens) < MaxGens
        /\ now + timeout <= MaxTrackTime
        /\ lastCall' = Call("trackTrigger", 0, st.threw, FALSE)
        /\ IF freq = 0
           THEN UNCHANGED <<voiceVars, trackVars>>
           ELSE /\ gens' = st.gens
                /\ activeVoices' = st.activeVoices
                /\ IF st.threw
                   THEN trackTimers' = cleared /\ UNCHANGED activeNotes
                   ELSE /\ trackTimers' = cleared \cup
                               {[noteId |-> noteId, rowId |-> rowId,
                                 due |-> now + timeout]}
                        /\ activeNotes' =
                               Spread(activeNotes, [r \in {rowId} |-> noteId])
        /\ UNCHANGED <<audioContext, now, configVars, stageVars, held,
                       drumVars, parse, playVars, mcpVars, keyVars>>

\* the timeout callback: synth.noteOff(noteId); activeNotes.delete(rowId)
TrackTimerFires(t) ==
    LET st == noteOff(VoiceState(gens, activeVoices, FALSE), t.noteId)
    IN  /\ t \in trackTimers
        /\ t.due <= now
        /\ gens' = st.gens
        /\ activeVoices' = st.activeVoices
        /\ trackTimers' = trackTimers \ {t}
        /\ activeNotes' = IF st.threw THEN activeNotes
                          ELSE [r \in DOMAIN activeNotes \ {t.rowId} |->
                                   activeNotes[r]]
        /\ lastCall' = Call("trackTimer", 0, st.threw, FALSE)
        /\ UNCHANGED <<audioContext, now, configVars, stageVars, held,
                       drumVars, parse, playVars, mcpVars, keyVars>>

\* the track's panic(): clear every timeout, then synth.panic()
TrackPanic ==
    LET st == panicLoop(VoiceState(gens, activeVoices, FALSE),
                        MapKeys(activeVoices))
    IN  /\ trackTimers' = {}
        /\ activeNotes' = Absent
        /\ gens' = st.gens
        /\ activeVoices' = st.activeVoices
        /\ lastCall' = Call("trackPanic", 0, st.threw, FALSE)
        /\ UNCHANGED <<audioContext, now, configVars, stageVars, held,
                       drumVars, parse, playVars, mcpVars, keyVars>>

\* time passes until the next timeout is due
TimeoutComesDue ==
    /\ \E t \in trackTimers : t.due > now
    /\ \A t \in trackTimers : t.due > now
    /\ now' = (CHOOSE t \in trackTimers :
                   \A u \in trackTimers : t.due <= u.due).due
    /\ UNCHANGED <<audioContext, configVars, stageVars, voiceVars, held,
                   lastCall, drumVars, parse, edgeVars>>

NextTrack ==
    \/ Initialize
    \/ \E r \in TrackRows, d \in StepTimeouts : TrackTrigger(r, d)
    \/ \E t \in trackTimers : TrackTimerFires(t)
    \/ TrackPanic
    \/ Tick
    \/ TimeoutComesDue

SpecTrack == Init /\ [][NextTrack]_vars

\* C27: every voice the track engine registered has a pending note-off
\* timeout for its own note id, unless that timeout or panic has released
\* it: no registered voice is left without one.
C27_TrackVoicesGetTheirNoteOff ==
    \A e \in DOMAIN activeVoices :
        \E t \in trackTimers : t.noteId = activeVoices[e].noteId

----------------------------------------------------------------------------
(* The MCP server (mcp-server/server.ts): the browser sockets, and         *)
(* sendCommand with its pendingRequests entry and its timeout              *)

MaxRequests == 2      \* sendCommand calls that reach the browser
MaxWallClock == 2     \* the server's clock runs from 0 to MaxWallClock

SocketIds == {1, 2}

\* setTimeout(..., 5000), in units of 5 s
RequestTimeout == 1

\* what a message can carry as id: 0 is no id, MaxRequests + 1 is never issued
MessageIds == 0 .. (MaxRequests + 1)

\* wss.on('connection'): browserConnection = ws
Connect(ws) ==
    /\ ws \notin sockets
    /\ sockets' = sockets \cup {ws}
    /\ browserConnection' = ws
    /\ lastCall' = Call("connection", ws, FALSE, FALSE)
    /\ UNCHANGED <<audioContext, now, configVars, stageVars, voiceVars, held,
                   drumVars, parse, playVars, trackVars, requestId,
                   pendingRequests, requests, mcpTimers, wallClock, keyVars>>

\* ws.on('close') of any socket: browserConnection = null
Close(ws) ==
    /\ ws \in sockets
    /\ sockets' = sockets \ {ws}
    /\ browserConnection' = NoSocket
    /\ lastCall' = Call("close", ws, FALSE, FALSE)
    /\ UNCHANGED <<audioContext, now, configVars, stageVars, voiceVars, held,
                   drumVars, parse, playVars, trackVars, requestId,
                   pendingRequests, requests, mcpTimers, wallClock, keyVars>>

\* the promise of one sendCommand call; settles lists every call of its
\* resolve or reject
Request(id) == [id |-> id, sent |-> wallClock, settles |-> << >>]

\* resolve(...) or reject(...) of request r is called
settle(reqs, r, by) ==
    [reqs EXCEPT ![r].settles = Append(@, [by |-> by, at |-> wallClock])]

\* the entry stays in the map
keepPending(pending, id) == pending

\* pendingRequests.delete(id)
deletePending(pending, id) ==
    [k \in DOMAIN pending \ {id} |-> pending[k]]

\* sendCommand(type, payload)
SendCommand ==
    IF browserConnection = NoSocket
    THEN /\ lastCall' = Call("sendCommand", 0, TRUE, FALSE)
         /\ UNCHANGED <<audioContext, now, configVars, stageVars, voiceVars,
                        held, drumVars, parse, edgeVars>>
    ELSE LET id == requestId + 1
             r == Len(requests) + 1
         IN  /\ Len(requests) < MaxRequests
             /\ requestId' = id
             /\ requests' = Append(requests, Request(id))
             /\ mcpTimers' = mcpTimers \cup
                    {[req |-> r, id |-> id, due |-> wallClock + RequestTimeout]}
             /\ pendingRequests' = Spread(pendingRequests, [k \in {id} |-> r])
             /\ lastCall' = Call("sendCommand", id, FALSE, FALSE)
             /\ UNCHANGED <<audioContext, now, configVars, stageVars,
                            voiceVars, held, drumVars, parse, playVars,
                            trackVars, sockets, browserConnection, wallClock,
                            keyVars>>

\* the timeout callback of a request: delete the entry, reject
RequestTimesOut(t) ==
    /\ t \in mcpTimers
    /\ t.due <= wallClock
    /\ mcpTimers' = mcpTimers \ {t}
    /\ pendingRequests' = deletePending(pendingRequests, t.id)
    /\ requests' = settle(requests, t.req, "timeout")
    /\ lastCall' = Call("timeout", t.id, FALSE, FALSE)
    /\ UNCHANGED <<audioContext, now, configVars, stageVars, voiceVars, held,
                   drumVars, parse, playVars, trackVars, sockets,
                   browserConnection, requestId, wallClock, keyVars>>

\* ws.on('message'): the entry of the id, if any, is deleted and called; it
\* clears the timeout and rejects on response.error, resolves otherwise
Message(ws, id, error) ==
    LET found == id # 0 /\ id \in DOMAIN pendingRequests
    IN  /\ ws \in sockets
        /\ lastCall' = Call("message", id, FALSE, found)
        /\ IF found
           THEN LET r == pendingRequests[id]
                IN  /\ pendingRequests' = deletePending(pendingRequests, id)
                    /\ mcpTimers' = {t \in mcpTimers : t.req # r}
                    /\ requests' = settle(requests, r,
                                      IF error THEN "error" ELSE "result")
           ELSE UNCHANGED <<pendingRequests, mcpTimers, requests>>
        /\ UNCHANGED <<audioContext, now, configVars, stageVars, voiceVars,
                       held, drumVars, parse, playVars, trackVars, sockets,
                       browserConnection, requestId, wallClock, keyVars>>

SecondPasses ==
    /\ wallClock < MaxWallClock
    /\ wallClock' = wallClock + 1
    /\ UNCHANGED <<audioContext, now, configVars, stageVars, voiceVars, held,
                   lastCall, drumVars, parse, playVars, trackVars, sockets,
                   browserConnection, requestId, pendingRequests, requests,
                   mcpTimers, keyVars>>

NextMcp ==
    \/ \E ws \in SocketIds : Connect(ws)
    \/ \E ws \in SocketIds : Close(ws)
    \/ SendCommand
    \/ \E t \in mcpTimers : RequestTimesOut(t)
    \/ \E ws \in SocketIds, id \in MessageIds, error \in BOOLEAN :
           Message(ws, id, error)
    \/ SecondPasses

SpecMcp == Init /\ [][NextMcp]_vars

\* C28: every sendCommand request has an id of its own; its resolve or
\* reject is called at most once, by the response carrying its id or by the
\* timeout no earlier than 5 s after it was sent; while it is unsettled its
\* pendingRequests entry and its timeout are both in place, and once it is
\* settled both are gone, so that a later response is ignored.
C28_RequestsSettleExactlyOnce ==
    /\ \A i, j \in DOMAIN requests :
           i # j => requests[i].id # requests[j].id
    /\ DOMAIN pendingRequests \subseteq
           {requests[r].id : r \in DOMAIN requests}
    /\ \A r \in DOMAIN requests :
        LET q == requests[r]
            unsettled == q.settles = << >>
        IN  /\ Len(q.settles) <= 1
            /\ unsettled <=> /\ q.id \in DOMAIN pendingRequests
                             /\ pendingRequests[q.id] = r
            /\ unsettled <=> \E t \in mcpTimers : t.req = r
            /\ \A k \in DOMAIN q.settles :
                   q.settles[k].by = "timeout"
                       => q.settles[k].at >= q.sent + RequestTimeout

\* a response arrived for a request the timeout had rejected, and another
\* request was settled by its response
W_C28 ==
    /\ lastCall.op = "message"
    /\ ~lastCall.found
    /\ \E r \in DOMAIN requests :
           /\ requests[r].id = lastCall.id
           /\ Len(requests[r].settles) = 1
           /\ requests[r].settles[1].by = "timeout"
    /\ \E r \in DOMAIN requests :
           /\ Len(requests[r].settles) = 1
           /\ requests[r].settles[1].by \in {"result", "error"}

\* C29: whenever a browser socket is open, browserConnection is one of the
\* open sockets, and sendCommand throws 'Browser synth not connected' only
\* when no browser socket is open.
C29_BrowserConnectionIsAnOpenSocket ==
    /\ sockets # {} => browserConnection \in sockets
    /\ (lastCall.op = "sendCommand" /\ lastCall.threw) => sockets = {}

----------------------------------------------------------------------------
(* The computer keyboard (setupKeyboardInput / Keyboard handleKeyDown and  *)
(* handleKeyUp). keydown awaits ensureAudio(); ensureAudio awaits only      *)
(* synth.initialize(), which runs to completion without yielding, so the   *)
(* rest of keydown is a microtask: no other event is handled before it.    *)

NoteKeys == {"a", "k"}

\* keyMap, for the keys of the model
keyMap == [key \in NoteKeys |-> IF key = "a" THEN 60 ELSE 72]

\* Math.max(-36, Math.min(36, offset))
clampOctave(offset) ==
    IF offset < -36 THEN -36 ELSE IF offset > 36 THEN 36 ELSE offset

\* no handler is suspended: the event loop takes the next event
EventLoopIdle == awaiting = << >>

\* keydown up to its await; ignored: the keyboard is disabled or the target
\* is an input field
KeyDown(key, ignored) ==
    /\ EventLoopIdle
    /\ keysDown' = keysDown \cup {key}
    /\ lastCall' = Call("keydown", keyMap[key], FALSE, FALSE)
    /\ IF ignored \/ key \in DOMAIN pressedKeys
       THEN UNCHANGED <<audioContext, stageVars, awaiting>>
       ELSE /\ Len(gens) < MaxGens
            /\ AutoInitialize
            /\ awaiting' = Append(awaiting, key)
    /\ UNCHANGED <<now, configVars, voiceVars, held, drumVars, parse,
                   playVars, trackVars, mcpVars, pressedKeys, octaveOffset,
                   keyVoices>>

\* keydown after its await: pressedKeys.set(key, midiNote); synth.noteOn
KeyDownResumes ==
    /\ awaiting # << >>
    /\ LET key == Head(awaiting)
           midiNote == keyMap[key] + octaveOffset
           st == noteOn(VoiceState(gens, activeVoices, FALSE),
                        midiToFrequency(midiNote), midiNote)
       IN  /\ awaiting' = Tail(awaiting)
           /\ pressedKeys' = Spread(pressedKeys, [k \in {key} |-> midiNote])
           /\ gens' = st.gens
           /\ activeVoices' = st.activeVoices
           /\ keyVoices' = IF Len(st.gens) > Len(gens)
                           THEN keyVoices \cup
                                    {[key |-> key, gen |-> Len(st.gens)]}
                           ELSE keyVoices
           /\ lastCall' = Call("keydownResumes", midiNote, st.threw, FALSE)
    /\ UNCHANGED <<audioContext, now, configVars, stageVars, held, drumVars,
                   parse, playVars, trackVars, mcpVars, octaveOffset,
                   keysDown>>

\* keyup: pressedKeys.delete(key); synth.noteOff(midiNote)
KeyUp(key) ==
    /\ EventLoopIdle
    /\ key \in keysDown
    /\ keysDown' = keysDown \ {key}
    /\ IF key \in DOMAIN pressedKeys
       THEN LET midiNote == pressedKeys[key]
                st == noteOff(VoiceState(gens, activeVoices, FALSE), midiNote)
            IN  /\ pressedKeys' = [k \in DOMAIN pressedKeys \ {key} |->
                                      pressedKeys[k]]
                /\ gens' = st.gens
                /\ activeVoices' = st.activeVoices
                /\ lastCall' = Call("keyup", midiNote, st.threw, TRUE)
       ELSE /\ UNCHANGED <<pressedKeys, voiceVars>>
            /\ lastCall' = Call("keyup", keyMap[key], FALSE, FALSE)
    /\ UNCHANGED <<audioContext, now, configVars, stageVars, held, drumVars,
                   parse, playVars, trackVars, mcpVars, octaveOffset,
                   awaiting, keyVoices>>

\* keydown of z (delta = -12) or x (delta = 12)
OctaveKey(delta) ==
    /\ EventLoopIdle
    /\ octaveOffset' = clampOctave(octaveOffset + delta)
    /\ lastCall' = Call("octave", 0, FALSE, FALSE)
    /\ UNCHANGED <<audioContext, now, configVars, stageVars, voiceVars, held,
                   drumVars, parse, playVars, trackVars, mcpVars, pressedKeys,
                   keysDown, awaiting, keyVoices>>

\* a set_config that names some of the envelope's fields, sent while keys
\* are played
KeyPartials == { [envelope |-> NoRelease] }

NextKeys ==
    \/ \E key \in NoteKeys, ignored \in BOOLEAN : KeyDown(key, ignored)
    \/ KeyDownResumes
    \/ \E key \in NoteKeys : KeyUp(key)
    \/ \E delta \in {-12, 12} : OctaveKey(delta)
    \/ EventLoopIdle /\ \E p \in KeyPartials : SetConfig(p)

SpecKeys == Init /\ [][NextKeys]_vars

\* C30: once a key is up and no keydown handler is still waiting on the
\* audio initialization, no voice that a press of that key started is
\* registered any more.
C30_KeyUpReleasesTheKeysVoice ==
    EventLoopIdle =>
        \A kv \in keyVoices :
            kv.key \notin keysDown => ~Registered(kv.gen)

====
